---- MODULE Spec2Model ----
(***************************************************************************)
(* Model of the generation job queue and protocol-consumption engine of   *)
(* src/pages/generate.py (class GeneratePage): _topo_sort, the job list    *)
(* with its worker loop (_process_queue), the submit / cancel / stop       *)
(* handlers and the receive loop of _generate_logic.                       *)
(*                                                                         *)
(* Four specifications share the module:                                   *)
(*   SpecTopo    - _topo_sort applied to every bounded workflow graph      *)
(*   Spec        - the UI thread and the worker threads on the job list    *)
(*   SpecRun     - one worker thread, its sessions step by step, with the  *)
(*                 cancel and stop handlers, under weak fairness           *)
(*   SpecSession - one session's receive loop over bounded event streams   *)
(***************************************************************************)
EXTENDS Integers, Sequences, FiniteSets, TLC

\* ---------------------------------------------------------------- bounds
MaxNodes == 3
MaxInputs == 3
MaxJobs == 3
MaxWorkers == 2
MaxBatch == 2

\* ------------------------------------------------------------ python data
None == "None"

\* A node id is the decimal string "n"; it is modelled by the number n.
\* A python value that can stand first in a list input is a str or an int.
PyStr(n) == [ty |-> "str", n |-> n]
PyInt(n) == [ty |-> "int", n |-> n]

\* str(x): the decimal string of an int, a str unchanged; the result is a
\* node-id string, i.e. its number.
Str(x) == x.n

\* Input values of a node: [parent, output_index] lists, other lists, scalars.
StrRef(n) == [islist |-> TRUE, len |-> 2, first |-> PyStr(n)]
IntRef(n) == [islist |-> TRUE, len |-> 2, first |-> PyInt(n)]
Triple(n) == [islist |-> TRUE, len |-> 3, first |-> PyStr(n)]
Scalar(n) == [islist |-> FALSE, len |-> 0, first |-> PyStr(n)]

Range(s) == {s[i] : i \in DOMAIN s}

\* The elements of s at the positions where owner is nid, in order.
RECURSIVE SelectAt(_, _, _)
SelectAt(s, owner, nid) ==
    IF s = <<>> THEN <<>>
    ELSE IF Head(owner) = nid
         THEN <<Head(s)>> \o SelectAt(Tail(s), Tail(owner), nid)
         ELSE SelectAt(Tail(s), Tail(owner), nid)

VARIABLES
    \* _topo_sort
    workflow_data,      \* the workflow graph handed to _topo_sort
    exec_order,         \* the order it returned
    topo_pc,            \* "start" before the call, "done" after it
    \* GeneratePage queue state (__init__, lines 78-90)
    job_list,           \* self.job_list: the ids of the job dicts, in list order
    status,             \* job["status"] of every job dict created so far
    is_processing,      \* self.is_processing
    current_job_id,     \* self.current_job_id: a job id, NoJob for None
    stop_requested,     \* self._stop_requested (threading.Event)
    active_ws,          \* self._active_ws: the worker whose socket it is, or None
    wk,                 \* the _process_queue threads: position, job, socket
    ui,                 \* the GTK main thread: the handler it is inside
    taken,              \* history: the jobs flipped pending -> processing, in order
    \* one session (_generate_logic)
    s_pc,               \* position inside _generate_logic
    prompt_id,          \* the prompt id the server answered the POST with
    current_index,      \* current_index
    progress,           \* the fraction last given to progress_bar.set_fraction
    label,              \* the text last given to set_current_node
    msg,                \* the value ws.recv() returned last
    emitted,            \* the calls made while handling msg, in order
    preview,            \* the image data last given to _on_image_update
    calls               \* history: the history fetch and _on_image_final calls

topoVars == <<workflow_data, exec_order, topo_pc>>
sessVars == <<s_pc, prompt_id, current_index, progress, label, msg, emitted,
              preview, calls>>
queueVars == <<job_list, status, is_processing, current_job_id, stop_requested,
               active_ws, wk, ui, taken>>
vars == <<topoVars, queueVars, sessVars>>

\* ------------------------------------------------------------ _topo_sort

\* deps = {nid: set() for nid in workflow_data}, filled from every input
\* that is a list of length 2 whose str(first) is a key of the workflow.
DepsDropMembership(wf) ==
    [nid \in Range(wf.keys) |->
        {Str(v.first) : v \in {x \in Range(wf.node[nid].inputs) :
                                  x.islist /\ x.len = 2}}]

_deps(wf) ==
    [nid \in Range(wf.keys) |->
        {Str(v.first) : v \in {x \in Range(wf.node[nid].inputs) :
                                  x.islist /\ x.len = 2}}
        \cap Range(wf.keys)]

\* The orders in which python may iterate a set: every permutation.
SetIterations(S) ==
    {f \in [1..Cardinality(S) -> S] : \A i, j \in DOMAIN f : i # j => f[i] # f[j]}

\* One iteration order for each node's dependency set.
RECURSIVE IterOrdersOver(_, _)
IterOrdersOver(deps, nodes) ==
    IF nodes = {} THEN {<<>>}
    ELSE LET n == CHOOSE k \in nodes : \A j \in nodes : k >= j
         IN {Append(it, p) : it \in IterOrdersOver(deps, nodes \ {n}),
                             p \in SetIterations(deps[n])}

IterOrders(deps) == IterOrdersOver(deps, DOMAIN deps)

\* deps.get(nid, [])
DepsGet(it, nid) == IF nid \in DOMAIN it THEN it[nid] ELSE <<>>

RECURSIVE visit(_, _, _), visitEach(_, _, _), visitPreOrder(_, _, _)

\* A visit that appends the node before its parents (the mutant of visit).
visitPreOrder(nid, it, st) ==
    IF nid \in st.visited THEN st
    ELSE visitEach(DepsGet(it, nid), it,
                   [visited |-> st.visited \cup {nid},
                    order |-> Append(st.order, nid)])

\* def visit(nid): marks nid visited on entry, visits its parents, appends it.
visit(nid, it, st) ==
    IF nid \in st.visited THEN st
    ELSE LET entered == [st EXCEPT !.visited = @ \cup {nid}]
             after == visitEach(DepsGet(it, nid), it, entered)
         IN [after EXCEPT !.order = Append(@, nid)]

\* for x in seq: visit(x)
visitEach(seq, it, st) ==
    IF seq = <<>> THEN st
    ELSE visitEach(Tail(seq), it, visit(Head(seq), it, st))

\* _topo_sort(workflow_data) under the set iteration orders it.
_topo_sort(wf, it) ==
    visitEach(wf.keys, it, [visited |-> {}, order |-> <<>>]).order

\* Every order _topo_sort can return for the workflow.
TopoResults(wf) == {_topo_sort(wf, it) : it \in IterOrders(_deps(wf))}

\* ---------------------------------------------------- bounded workflows

NodeClass == "Node"

\* Values a node input can take in a workflow of n nodes: references to the
\* nodes and to one id that is no node (dangling), an int-typed reference,
\* a 3-element list and a scalar.
InputValues(n) ==
    {StrRef(k) : k \in 1..(n + 1)} \cup {IntRef(1), Triple(1), Scalar(1)}

\* Owners of m input values among n nodes, in node order.
Owners(n, m) ==
    {o \in [1..m -> 1..n] : \A i, j \in 1..m : i < j => o[i] <= o[j]}

MkWorkflow(n, owner, vals) ==
    [keys |-> [i \in 1..n |-> i],
     node |-> [nid \in 1..n |->
                 [class_type |-> NodeClass,
                  inputs |-> SelectAt(vals, owner, nid)]]]

\* ------------------------------------------------ session: data model

\* Fractions are exact: <<numerator, denominator>> in lowest terms.
RECURSIVE Gcd(_, _)
Gcd(a, b) == IF b = 0 THEN a ELSE Gcd(b, a % b)

Frac(n, d) == LET g == Gcd(n, d) IN <<n \div g, d \div g>>
FracLeq(a, b) == a[1] * b[2] <= b[1] * a[2]
Zero == Frac(0, 1)
One == Frac(1, 1)

\* JSON null in the "node" field; node ids are the numbers 1, 2, ...
NoNode == 0

\* Prompt ids: the one the server gave this session, and the one of an
\* earlier, interrupted session.
OwnPid == "pB"
StalePid == "pA"

SAVE_NODE_CLASS == "SaveFullPipe"

\* The label of the idle state: set_current_node(None) shows "Ready".
Ready == "Ready"

NoMsg == [type |-> "none", node |-> NoNode, pid |-> None, value |-> 0,
          max |-> 0, images |-> FALSE, frame |-> <<>>]

\* Bound of the "max" field of progress events.
MaxProgress == 2

\* Number of bytes the server puts in front of a binary preview frame.
HeaderLen == 8

Bytes(n) == [i \in 1..n |-> i]

\* What ws.recv() can return in a session on the workflow wf: binary frames
\* (shorter than, as long as and longer than the header), and JSON texts:
\* "executing" for every node, null and an unknown node, with this
\* session's prompt id, a stale one or none; "progress" with
\* 0 <= value <= max; "executed" with or without images; an event of
\* another type; a text that is no JSON ("garbage"); a JSON text that lacks
\* a field the handling reads ("nofield").
Events(wf) ==
    {[NoMsg EXCEPT !.type = "binary", !.frame = Bytes(n)] :
        n \in {HeaderLen - 1, HeaderLen, HeaderLen + 2}}
    \cup {[NoMsg EXCEPT !.type = "executing", !.node = nd, !.pid = p] :
            nd \in 0..(Len(wf.keys) + 1), p \in {OwnPid, StalePid, None}}
    \cup {[NoMsg EXCEPT !.type = "progress", !.value = vm[1], !.max = vm[2],
                        !.pid = p] :
            vm \in {x \in (0..MaxProgress) \X (0..MaxProgress) : x[1] <= x[2]},
            p \in {OwnPid, StalePid}}
    \cup {[NoMsg EXCEPT !.type = "executed", !.images = im, !.pid = p] :
            im \in BOOLEAN, p \in {OwnPid, StalePid}}
    \cup {[NoMsg EXCEPT !.type = "status"], [NoMsg EXCEPT !.type = "garbage"],
          [NoMsg EXCEPT !.type = "nofield"]}

\* A chain of n nodes in which node i takes an input from node i + 1, so
\* that the execution order is the reverse of the insertion order; nodes 1
\* and 3 are save nodes.
MkChain(n) ==
    [keys |-> [i \in 1..n |-> i],
     node |-> [nid \in 1..n |->
                 [class_type |-> IF nid \in {1, 3} THEN SAVE_NODE_CLASS
                                  ELSE NodeClass,
                  inputs |-> IF nid < n THEN <<StrRef(nid + 1)>>
                             ELSE <<Scalar(1)>>]]]

\* node_index.get(nid, default) with an index that starts at 1 (the mutant
\* of NodeIndexGet).
NodeIndexGetFromOne(order, nid, default) ==
    IF \E i \in DOMAIN order : order[i] = nid
    THEN CHOOSE i \in DOMAIN order : order[i] = nid
    ELSE default

\* node_index = {nid: i for i, nid in enumerate(exec_order)};
\* node_index.get(nid, default)
NodeIndexGet(order, nid, default) ==
    IF \E i \in DOMAIN order : order[i] = nid
    THEN (CHOOSE i \in DOMAIN order : order[i] = nid) - 1
    ELSE default

\* workflow_data.get(node_id, {}).get("class_type", "Unknown")
ClassOf(wf, nid) ==
    IF nid \in Range(wf.keys) THEN wf.node[nid].class_type ELSE "Unknown"

\* The "executing" branch without the skip of other prompts' events (the
\* mutant of ExecutingBranch for C6).
ExecutingBranchNoSkip(node_id, msg_pid, pid) ==
    IF node_id = NoNode /\ msg_pid = pid THEN "break" ELSE "update"

\* The "executing" branch that ends the loop on every null node and takes
\* every other event as this session's (the mutant of ExecutingBranch).
ExecutingBranchUnguarded(node_id, msg_pid, pid) ==
    IF node_id = NoNode THEN "break" ELSE "update"

\* if node_id is None and msg_pid == prompt_id: break
\* if msg_pid not in (prompt_id, None): continue
ExecutingBranch(node_id, msg_pid, pid) ==
    IF node_id = NoNode /\ msg_pid = pid THEN "break"
    ELSE IF msg_pid \notin {pid, None} THEN "continue"
    ELSE "update"

\* The frame handed on with its header (the mutant of StripHeader).
StripHeaderNot(frame) == frame

\* out[8:]
StripHeader(frame) == SubSeq(frame, HeaderLen + 1, Len(frame))

\* Nothing fetched, nothing delivered, no exception caught.
NoCalls == [history |-> 0, on_final |-> 0, fetched |-> "none", saves |-> 0,
            raised |-> FALSE, stream |-> 0]

\* How far the frames received so far follow the complete in-order stream of
\* the prompt pid over the execution order: for every node in turn
\* "executing" of the node, any number of "progress", "executed"; then the
\* terminal "executing" with node null. k counts the executing / executed
\* events of that stream received (one more for the terminal event);
\* OffStream once a frame did not fit.
OffStream == 0 - 1

StreamNext(k, m, order, pid) ==
    LET n == Len(order)
        own == pid # None /\ m.pid = pid
    IN IF k = OffStream \/ ~own THEN OffStream
       ELSE IF m.type = "executing" /\ m.node # NoNode
            THEN IF k % 2 = 0 /\ k < 2 * n /\ m.node = order[(k \div 2) + 1]
                 THEN k + 1 ELSE OffStream
       ELSE IF m.type = "progress" /\ m.max > 0
            THEN IF k % 2 = 1 THEN k ELSE OffStream
       ELSE IF m.type = "executed"
            THEN IF k % 2 = 1 THEN k + 1 ELSE OffStream
       ELSE IF m.type = "executing" /\ m.node = NoNode
            THEN IF k = 2 * n THEN k + 1 ELSE OffStream
       ELSE OffStream

\* The fraction of an "executed" event without the snap to the end of the
\* node's slice (the mutant of ExecutedFraction).
ExecutedFractionNoSnap(index, total) == Frac(index, total)

\* (current_index + 1) / total_nodes
ExecutedFraction(index, total) == Frac(index + 1, total)

\* A loop over the history outputs without its break (the mutant of
\* FinalCalls): one call for every output of a save node.
FinalCallsNoBreak(saves) == Cardinality(saves)

\* for node_id, node_output in outputs.items(): if the node's class is
\* SAVE_NODE_CLASS: ... GLib.idle_add(self._on_image_final, ...); break
\* The number of _on_image_final calls for the save nodes with an output.
FinalCalls(saves) == IF saves = {} THEN 0 ELSE 1

InitSessionIdle ==
    /\ s_pc = "idle"
    /\ prompt_id = None
    /\ current_index = 0
    /\ progress = Zero
    /\ label = Ready
    /\ msg = NoMsg
    /\ emitted = <<>>
    /\ preview = <<>>
    /\ calls = NoCalls

\* ------------------------------------------- job queue: state and helpers

Jobs == 1..MaxJobs
\* The _process_queue threads that can be alive at the same time; a thread
\* that ended leaves its slot to the next one started.
Workers == 1..MaxWorkers

NoJob == 0
NoWorker == 0

\* The main thread: the handler it is in (pc), the job the handler was
\* called for, the jobs a click has still to append, and how a running stop
\* handler was entered ("cancel": from _cancel_job, "stop": directly).
UiIdle == [pc |-> "idle", job |-> NoJob, left |-> 0, via |-> "none"]
\* A thread slot: position, the job it took, the state of its websocket, and
\* what its session did so far: how the POST of the prompt was answered and
\* whether the receive loop consumed an event; last is how the thread's
\* latest finished session left its try block ("raised" or "returned");
\* stopped: a stop was requested while the thread's job was the one being
\* processed; logged: the session's exception went to the log.
Thread(pc, j) ==
    [pc |-> pc, job |-> j, ws |-> "none", post |-> "none", events |-> FALSE,
     last |-> "none", stopped |-> FALSE, logged |-> FALSE]

\* The thread t at the top of its loop or with the job it just took.
Continue(t, pc, j) == [Thread(pc, j) EXCEPT !.last = t.last]
NoThread == Thread("free", NoJob)

\* GeneratePage.__init__ (queue part): empty list, no worker, flag clear.
InitQueue ==
    /\ job_list = <<>>
    /\ status = [j \in Jobs |-> "none"]
    /\ is_processing = FALSE
    /\ current_job_id = NoJob
    /\ stop_requested = FALSE
    /\ active_ws = NoWorker
    /\ wk = [w \in Workers |-> NoThread]
    /\ ui = UiIdle
    /\ taken = <<>>

InitTopoIdle ==
    /\ workflow_data = MkWorkflow(0, <<>>, <<>>)
    /\ exec_order = <<>>
    /\ topo_pc = "idle"

Created == {j \in Jobs : status[j] # "none"}

\* A remove that drops the last element when j is not in the list (the
\* mutant of Remove).
RECURSIVE RemoveOrPop(_, _)
RemoveOrPop(list, j) ==
    IF list = <<>> THEN <<>>
    ELSE IF Head(list) = j \/ Len(list) = 1 THEN Tail(list)
         ELSE <<Head(list)>> \o RemoveOrPop(Tail(list), j)

\* list.remove(job) with the ValueError swallowed: the list without j.
RECURSIVE Remove(_, _)
Remove(list, j) ==
    IF list = <<>> THEN <<>>
    ELSE IF Head(list) = j THEN Tail(list)
         ELSE <<Head(list)>> \o Remove(Tail(list), j)

\* The last pending job of the list (the mutant of NextPending).
RECURSIVE LastPending(_, _)
LastPending(list, st) ==
    IF list = <<>> THEN NoJob
    ELSE IF st[list[Len(list)]] = "pending" THEN list[Len(list)]
         ELSE LastPending(SubSeq(list, 1, Len(list) - 1), st)

\* A scan that takes the first job of the list whatever its status (the
\* mutant of NextPending).
FirstListed(list, st) == IF list = <<>> THEN NoJob ELSE Head(list)

\* for j in self.job_list: if j["status"] == "pending": ... break
\* The first pending job in list order, NoJob when there is none.
RECURSIVE NextPending(_, _)
NextPending(list, st) ==
    IF list = <<>> THEN NoJob
    ELSE IF st[Head(list)] = "pending" THEN Head(list)
         ELSE NextPending(Tail(list), st)

\* ------------------------------------------------- UI thread (GTK main loop)
\* Handlers run one at a time on the main thread; a handler's steps are
\* separated where it takes or releases a lock or reads shared state, and
\* worker threads run in between.

\* job = {...status: "pending"}; with job_list_lock: job_list.append(job)
AppendJob ==
    LET j == Cardinality(Created) + 1
    IN /\ status' = [status EXCEPT ![j] = "pending"]
       /\ job_list' = Append(job_list, j)

\* on_generate_clicked with batch_count = batch: the first job is appended.
OnGenerateClicked(batch) ==
    /\ ui.pc = "idle"
    /\ Cardinality(Created) + batch <= MaxJobs
    /\ AppendJob
    /\ ui' = IF batch = 1 THEN [UiIdle EXCEPT !.pc = "gen_check"]
             ELSE [UiIdle EXCEPT !.pc = "gen_append", !.left = batch - 1]
    /\ UNCHANGED <<is_processing, current_job_id, stop_requested, active_ws,
                   wk, taken, topoVars, sessVars>>

\* the next iteration of "for _ in range(batch_count)"
GenerateAppend ==
    /\ ui.pc = "gen_append"
    /\ AppendJob
    /\ ui' = IF ui.left = 1 THEN [UiIdle EXCEPT !.pc = "gen_check"]
             ELSE [ui EXCEPT !.left = @ - 1]
    /\ UNCHANGED <<is_processing, current_job_id, stop_requested, active_ws,
                   wk, taken, topoVars, sessVars>>

\* if not self.is_processing: threading.Thread(target=_process_queue).start()
\* w is the thread the click starts.
StartedBy(w) ==
    /\ ~is_processing
    /\ wk[w].pc = "free"
    /\ \A v \in Workers : v < w => wk[v].pc # "free"

GenerateStartWorker ==
    /\ ui.pc = "gen_check"
    /\ ui' = UiIdle
    /\ is_processing \/ \E w \in Workers : wk[w].pc = "free"
    /\ IF \E w \in Workers : StartedBy(w)
       THEN \E w \in Workers :
               /\ StartedBy(w)
               /\ wk' = [wk EXCEPT ![w].pc = "start"]
       ELSE UNCHANGED wk
    /\ UNCHANGED <<job_list, status, is_processing, current_job_id,
                   stop_requested, active_ws, taken, topoVars, sessVars>>

\* A cancel that leaves the status as it is (the mutant of MarkCancelled).
MarkCancelledNot(st, j) == st

\* if status == "pending": job["status"] = "cancelled"
MarkCancelled(st, j) ==
    IF st[j] = "pending" THEN [st EXCEPT ![j] = "cancelled"] ELSE st

\* A cancel that removes the job whatever its status (the mutant of
\* CancelBranch).
CancelBranchAlwaysRemove(st) == "cancel_remove"

\* if status == "processing": self.on_stop_clicked(None)
\* else: remove the row and the job
CancelBranch(st) == IF st = "processing" THEN "stop_set" ELSE "cancel_remove"

\* _cancel_job, first critical section: read the status, flip pending to
\* cancelled; a processing job leads into on_stop_clicked. ui.job is the job
\* the handler was called for.
CancelJob(j) ==
    /\ ui.pc = "idle"
    /\ j \in Created
    /\ status' = MarkCancelled(status, j)
    /\ ui' = [UiIdle EXCEPT !.pc = CancelBranch(status[j]), !.job = j]
    /\ UNCHANGED <<job_list, is_processing, current_job_id, stop_requested,
                   active_ws, wk, taken, topoVars, sessVars>>

\* _cancel_job, else branch: with job_list_lock: job_list.remove(job)
CancelRemove ==
    /\ ui.pc = "cancel_remove"
    /\ job_list' = Remove(job_list, ui.job)
    /\ ui' = UiIdle
    /\ UNCHANGED <<status, is_processing, current_job_id, stop_requested,
                   active_ws, wk, taken, topoVars, sessVars>>

\* The job a stop is requested for: the one _cancel_job was called for, or
\* the job that is being processed when the stop handler is entered.
StopTarget ==
    LET processing == {j \in Range(job_list) : status[j] = "processing"}
    IN IF ui.pc = "stop_set" THEN ui.job
       ELSE IF processing = {} THEN NoJob
       ELSE CHOOSE j \in processing : \A k \in processing : k <= j

\* on_stop_clicked (stop button, Ctrl+Escape, or from _cancel_job):
\* self._stop_requested.set()
StopFlagSet ==
    /\ ui.pc \in {"idle", "stop_set"}
    /\ stop_requested' = TRUE
    /\ ui' = [UiIdle EXCEPT !.pc = "stop_close", !.job = StopTarget,
                            !.via = IF ui.pc = "stop_set" THEN "cancel"
                                    ELSE "stop"]
    /\ UNCHANGED <<job_list, status, is_processing, current_job_id,
                   active_ws, taken, topoVars, sessVars>>

\* on_stop_clicked with nothing remembered in the threads
OnStopClicked == StopFlagSet /\ UNCHANGED wk

\* WebSocket.close(): a connected socket is closed; a socket that was never
\* connected has nothing to close and can still connect afterwards.
Closed(ws) == IF ws = "connected" THEN "closed" ELSE ws

\* with _active_ws_lock: if _active_ws is not None: _active_ws.close();
\* then the POST to /interrupt (best effort).
StopCloseSocket ==
    /\ ui.pc = "stop_close"
    /\ wk' = IF active_ws = NoWorker THEN wk
             ELSE [wk EXCEPT ![active_ws].ws = Closed(@)]
    /\ ui' = UiIdle
    /\ UNCHANGED <<job_list, status, is_processing, current_job_id,
                   stop_requested, active_ws, taken, topoVars, sessVars>>

\* --------------------------------------------- worker (_process_queue)

\* self.is_processing = True
WorkerStart(w) ==
    /\ wk[w].pc = "start"
    /\ is_processing' = TRUE
    /\ wk' = [wk EXCEPT ![w].pc = "scan"]
    /\ UNCHANGED <<job_list, status, current_job_id, stop_requested,
                   active_ws, ui, taken, topoVars, sessVars>>

\* with job_list_lock: take the first pending job, or leave the loop.
WorkerScan(w) ==
    /\ wk[w].pc = "scan"
    /\ LET j == NextPending(job_list, status)
       IN IF j # NoJob
          THEN /\ status' = [status EXCEPT ![j] = "processing"]
               /\ current_job_id' = j
               /\ taken' = Append(taken, j)
               /\ wk' = [wk EXCEPT ![w] = Continue(@, "s_begin", j)]
          ELSE /\ wk' = [wk EXCEPT ![w] = Continue(@, "exit", NoJob)]
               /\ UNCHANGED <<status, current_job_id, taken>>
    /\ UNCHANGED <<job_list, is_processing, stop_requested, active_ws, ui, topoVars, sessVars>>

\* _generate_logic up to the receive loop: ws = websocket.WebSocket();
\* with _active_ws_lock: self._active_ws = ws; then _topo_sort, ws.connect
\* and the POST of the prompt, any of which may raise.
SessBegin(w) ==
    /\ wk[w].pc = "s_begin"
    /\ active_ws' = w
    /\ \/ wk' = [wk EXCEPT ![w].pc = "s_recv", ![w].ws = "connected"]
       \/ wk' = [wk EXCEPT ![w].pc = "s_recv", ![w].ws = "failed"]
    /\ UNCHANGED <<job_list, status, is_processing, current_job_id,
                   stop_requested, ui, taken, topoVars, sessVars>>

\* The rest of _generate_logic. An exception from connect or the POST, or
\* recv on a socket that was closed, goes to "except Exception"; on an open
\* socket the loop runs until the terminal event (then the history fetch)
\* or an error. Then finally: with _active_ws_lock: self._active_ws = None;
\* ws.close().
SessEnd(w) ==
    /\ wk[w].pc = "s_recv"
    /\ active_ws' = NoWorker
    /\ wk' = [wk EXCEPT ![w].pc = "cleanup", ![w].ws = "closed"]
    /\ UNCHANGED <<job_list, status, is_processing, current_job_id,
                   stop_requested, ui, taken, topoVars, sessVars>>

\* with job_list_lock: job_list.remove(job); self.current_job_id = NoJob
WorkerCleanup(w) ==
    /\ wk[w].pc = "cleanup"
    /\ job_list' = Remove(job_list, wk[w].job)
    /\ current_job_id' = NoJob
    /\ wk' = [wk EXCEPT ![w].pc = "clear"]
    /\ UNCHANGED <<status, is_processing, stop_requested, active_ws, ui, taken, topoVars, sessVars>>

\* self._stop_requested.clear(), then back to the top of the loop
WorkerClearStop(w) ==
    /\ wk[w].pc = "clear"
    /\ stop_requested' = FALSE
    /\ wk' = [wk EXCEPT ![w] = Continue(@, "scan", NoJob)]
    /\ UNCHANGED <<job_list, status, is_processing, current_job_id,
                   active_ws, ui, taken, topoVars, sessVars>>

\* after the loop: self.is_processing = False; the thread ends
WorkerExit(w) ==
    /\ wk[w].pc = "exit"
    /\ is_processing' = FALSE
    /\ wk' = [wk EXCEPT ![w] = NoThread]
    /\ UNCHANGED <<job_list, status, current_job_id, stop_requested,
                   active_ws, ui, taken, topoVars, sessVars>>

Init == InitQueue /\ InitTopoIdle /\ InitSessionIdle

Next ==
    \/ \E batch \in 1..MaxBatch : OnGenerateClicked(batch)
    \/ GenerateAppend
    \/ GenerateStartWorker
    \/ \E j \in Jobs : CancelJob(j)
    \/ CancelRemove
    \/ OnStopClicked
    \/ StopCloseSocket
    \/ \E w \in Workers : WorkerStart(w)
    \/ \E w \in Workers : WorkerScan(w)
    \/ \E w \in Workers : SessBegin(w)
    \/ \E w \in Workers : SessEnd(w)
    \/ \E w \in Workers : WorkerCleanup(w)
    \/ \E w \in Workers : WorkerClearStop(w)
    \/ \E w \in Workers : WorkerExit(w)

Spec == Init /\ [][Next]_vars

\* ------------------------------ the worker with the steps of its session
\* The worker of Spec with _generate_logic taken step by step, so that a
\* stop can arrive at every point of a session: before the websocket is
\* registered, before connect, before the POST, during receive, during the
\* history fetch. The queue holds the jobs of one click on Generate and the
\* thread that click started; the user then cancels and stops.

\* An exception that nothing catches (the mutant of Caught): the thread dies.
Uncaught(pc) == "dead"

\* except Exception (1400), then finally (1405): where control goes after an
\* exception raised at position pc of the try block.
Caught(pc) == "s_finally"

\* ws = websocket.WebSocket(); with _active_ws_lock: self._active_ws = ws
RunRegister(w) ==
    /\ wk[w].pc = "s_begin"
    /\ active_ws' = w
    /\ wk' = [wk EXCEPT ![w].pc = "s_connect"]
    /\ UNCHANGED <<job_list, status, is_processing, current_job_id,
                   stop_requested, ui, taken, topoVars, sessVars>>

\* _topo_sort, then ws.connect(...): connects, or raises.
RunConnect(w) ==
    /\ wk[w].pc = "s_connect"
    /\ \/ wk' = [wk EXCEPT ![w].pc = "s_post", ![w].ws = "connected"]
       \/ wk' = [wk EXCEPT ![w].pc = "s_except"]
    /\ UNCHANGED <<job_list, status, is_processing, current_job_id,
                   stop_requested, active_ws, ui, taken, topoVars, sessVars>>

\* resp = requests.post(.../prompt); prompt_id = resp.json().get("prompt_id")
\* "ok": the server accepted the prompt. "httperr": the server answered with
\* an HTTP error status and a JSON body; requests.post returns it, no
\* status is looked at and prompt_id is None. "neterr": the request raised
\* (network error, timeout) or the body was no JSON.
RunPost(w) ==
    /\ wk[w].pc = "s_post"
    /\ \/ wk' = [wk EXCEPT ![w].pc = "s_loop", ![w].post = "ok"]
       \/ wk' = [wk EXCEPT ![w].pc = "s_loop", ![w].post = "httperr"]
       \/ wk' = [wk EXCEPT ![w].pc = "s_except", ![w].post = "neterr"]
    /\ UNCHANGED <<job_list, status, is_processing, current_job_id,
                   stop_requested, active_ws, ui, taken, topoVars, sessVars>>

\* out = ws.recv() returns a frame that does not end the loop.
RunRecvEvent(w) ==
    /\ wk[w].pc = "s_loop"
    /\ wk[w].ws = "connected"
    /\ wk' = [wk EXCEPT ![w].events = TRUE]
    /\ UNCHANGED <<job_list, status, is_processing, current_job_id,
                   stop_requested, active_ws, ui, taken, topoVars, sessVars>>

\* out = ws.recv() returns the terminal event: "executing" with node null
\* and the prompt id the POST gave (none at all when the POST gave none).
RunRecvTerminal(w) ==
    /\ wk[w].pc = "s_loop"
    /\ wk[w].ws = "connected"
    /\ wk' = [wk EXCEPT ![w].events = TRUE, ![w].pc = "s_history"]
    /\ UNCHANGED <<job_list, status, is_processing, current_job_id,
                   stop_requested, active_ws, ui, taken, topoVars, sessVars>>

\* ws.recv() on a socket that on_stop_clicked closed raises.
RunRecvClosed(w) ==
    /\ wk[w].pc = "s_loop"
    /\ wk[w].ws = "closed"
    /\ wk' = [wk EXCEPT ![w].pc = "s_except"]
    /\ UNCHANGED <<job_list, status, is_processing, current_job_id,
                   stop_requested, active_ws, ui, taken, topoVars, sessVars>>

\* The connection breaks, or the handling of a received event raises
\* (json.loads, a missing key, a division by zero, the GET of /view).
RunEventError(w) ==
    /\ wk[w].pc = "s_loop"
    /\ wk[w].ws = "connected"
    /\ wk' = [wk EXCEPT ![w].pc = "s_except"]
    /\ UNCHANGED <<job_list, status, is_processing, current_job_id,
                   stop_requested, active_ws, ui, taken, topoVars, sessVars>>

\* After the loop: the GET of /history and of the final image; returns or
\* raises.
RunHistory(w) ==
    /\ wk[w].pc = "s_history"
    /\ \/ wk' = [wk EXCEPT ![w].pc = "s_finally", ![w].last = "returned"]
       \/ wk' = [wk EXCEPT ![w].pc = "s_except"]
    /\ UNCHANGED <<job_list, status, is_processing, current_job_id,
                   stop_requested, active_ws, ui, taken, topoVars, sessVars>>

\* on_stop_clicked as in Spec; the thread whose job the stop is requested
\* for remembers that its session was stopped.
RunStopClicked ==
    /\ StopFlagSet
    /\ wk' = [w \in Workers |->
                IF wk[w].job # NoJob /\ wk[w].job = StopTarget
                THEN [wk[w] EXCEPT !.stopped = TRUE] ELSE wk[w]]

\* if not self._stop_requested.is_set(): log_fn(f"Generation error: {e}")
LogsError(flag) == ~flag

\* except Exception as e: logged unless _stop_requested.is_set()
RunExcept(w) ==
    /\ wk[w].pc = "s_except"
    /\ wk' = [wk EXCEPT ![w].pc = Caught("s_except"), ![w].last = "raised",
                        ![w].logged = LogsError(stop_requested)]
    /\ UNCHANGED <<job_list, status, is_processing, current_job_id,
                   stop_requested, active_ws, ui, taken, topoVars, sessVars>>

\* finally: with _active_ws_lock: self._active_ws = None; ws.close();
\* _generate_logic returns to _process_queue.
RunFinally(w) ==
    /\ wk[w].pc = "s_finally"
    /\ active_ws' = NoWorker
    /\ wk' = [wk EXCEPT ![w].pc = "cleanup", ![w].ws = "closed"]
    /\ UNCHANGED <<job_list, status, is_processing, current_job_id,
                   stop_requested, ui, taken, topoVars, sessVars>>

\* The state after one click on Generate with batch_count = n: n pending
\* jobs and the thread the click started.
InitRun ==
    /\ \E n \in 1..MaxJobs :
          /\ job_list = [i \in 1..n |-> i]
          /\ status = [j \in Jobs |-> IF j <= n THEN "pending" ELSE "none"]
    /\ is_processing = FALSE
    /\ current_job_id = NoJob
    /\ stop_requested = FALSE
    /\ active_ws = NoWorker
    /\ wk = [w \in Workers |-> IF w = 1 THEN Thread("start", NoJob)
                                ELSE NoThread]
    /\ ui = UiIdle
    /\ taken = <<>>
    /\ InitTopoIdle
    /\ InitSessionIdle

\* The steps a running thread takes by itself: everything but the arrival
\* of a frame from the server and the breaking of the connection.
WorkerStep(w) ==
    \/ WorkerStart(w)
    \/ WorkerScan(w)
    \/ RunRegister(w)
    \/ RunConnect(w)
    \/ RunPost(w)
    \/ RunRecvClosed(w)
    \/ RunHistory(w)
    \/ RunExcept(w)
    \/ RunFinally(w)
    \/ WorkerCleanup(w)
    \/ WorkerClearStop(w)
    \/ WorkerExit(w)

\* A handler that was entered on the main thread runs to its end.
UiStep ==
    \/ CancelRemove
    \/ (ui.pc = "stop_set" /\ RunStopClicked)
    \/ StopCloseSocket

NextRun ==
    \/ \E j \in Jobs : CancelJob(j)
    \/ CancelRemove
    \/ RunStopClicked
    \/ StopCloseSocket
    \/ \E w \in Workers : WorkerStart(w)
    \/ \E w \in Workers : WorkerScan(w)
    \/ \E w \in Workers : RunRegister(w)
    \/ \E w \in Workers : RunConnect(w)
    \/ \E w \in Workers : RunPost(w)
    \/ \E w \in Workers : RunRecvEvent(w)
    \/ \E w \in Workers : RunRecvTerminal(w)
    \/ \E w \in Workers : RunRecvClosed(w)
    \/ \E w \in Workers : RunEventError(w)
    \/ \E w \in Workers : RunHistory(w)
    \/ \E w \in Workers : RunExcept(w)
    \/ \E w \in Workers : RunFinally(w)
    \/ \E w \in Workers : WorkerCleanup(w)
    \/ \E w \in Workers : WorkerClearStop(w)
    \/ \E w \in Workers : WorkerExit(w)

\* Threads that can run do run, and a handler on the main thread returns;
\* nothing is assumed about the server sending frames.
SpecRun ==
    /\ InitRun
    /\ [][NextRun]_vars
    /\ \A w \in Workers : WF_vars(WorkerStep(w))
    /\ WF_vars(UiStep)

\* ------------------------------------------------ session: _generate_logic

total_nodes == Len(exec_order)

\* The thread slot of the thread that runs the session.
SessionThread == 1

\* A try block left without its finally block after an exception (the
\* mutant of ExitPath).
ExitPathSkipsFinally(from) == IF from = "except" THEN "done" ELSE "finally"

\* try / except Exception / finally: where control goes when the try block
\* is left at its end ("history") or the except block at its end.
ExitPath(from) == "finally"

\* The queue state a session leaves alone: all of it but the registered
\* websocket and the thread's own socket.
sessFrame == <<job_list, status, is_processing, current_job_id, stop_requested,
               ui, taken>>

\* _generate_logic up to the receive loop: _topo_sort, ws.connect, the POST;
\* the answer carries a prompt id, or none (resp.json().get gives None).
SessionStart ==
    /\ s_pc = "start"
    /\ exec_order' \in TopoResults(workflow_data)
    /\ current_index' = 0
    /\ prompt_id' \in {OwnPid, None}
    /\ s_pc' = "recv"
    /\ active_ws' = SessionThread
    /\ wk' = [wk EXCEPT ![SessionThread].ws = "connected"]
    /\ UNCHANGED <<workflow_data, topo_pc, progress, label, msg, emitted,
                   preview, calls, sessFrame>>

\* ws.connect raises (the socket stays unconnected) or requests.post raises
\* (the socket is connected): no event is received.
SessionStartFails ==
    /\ s_pc = "start"
    /\ exec_order' \in TopoResults(workflow_data)
    /\ current_index' = 0
    /\ s_pc' = "except"
    /\ active_ws' = SessionThread
    /\ \E ws \in {"none", "connected"} :
          wk' = [wk EXCEPT ![SessionThread].ws = ws]
    /\ UNCHANGED <<workflow_data, topo_pc, prompt_id, progress, label, msg,
                   emitted, preview, calls, sessFrame>>

\* out = ws.recv()
Recv ==
    /\ s_pc = "recv"
    /\ msg' \in Events(workflow_data)
    /\ s_pc' = "handle"
    /\ calls' = [calls EXCEPT
                    !.stream = StreamNext(@, msg', exec_order, prompt_id)]
    /\ UNCHANGED <<topoVars, prompt_id, current_index, progress, label,
                   emitted, preview, queueVars>>

\* ws.recv() raises (the socket was closed, the connection broke).
RecvRaises ==
    /\ s_pc = "recv"
    /\ s_pc' = "except"
    /\ UNCHANGED <<topoVars, prompt_id, current_index, progress, label, msg,
                   emitted, preview, calls, queueVars>>

\* isinstance(out, bytes): _on_image_update(out[8:]); continue
HandleBinary ==
    /\ s_pc = "handle"
    /\ msg.type = "binary"
    /\ preview' = StripHeader(msg.frame)
    /\ emitted' = <<"on_image_update">>
    /\ s_pc' = "recv"
    /\ UNCHANGED <<topoVars, prompt_id, current_index, progress, label, msg,
                   calls, queueVars>>

\* json.loads(out) raises on a text that is no JSON; msg["type"],
\* msg["data"]["node"], ["value"], ["max"], ["output"] raise KeyError on a
\* JSON text without the field.
HandleGarbage ==
    /\ s_pc = "handle"
    /\ msg.type \in {"garbage", "nofield"}
    /\ emitted' = <<>>
    /\ s_pc' = "except"
    /\ UNCHANGED <<topoVars, prompt_id, current_index, progress, label, msg,
                   preview, calls, queueVars>>

\* msg["type"] == "executing"
HandleExecuting ==
    /\ s_pc = "handle"
    /\ msg.type = "executing"
    /\ LET branch == ExecutingBranch(msg.node, msg.pid, prompt_id)
           idx == NodeIndexGet(exec_order, msg.node, current_index)
       IN CASE branch = "break" ->
                 /\ s_pc' = "history"
                 /\ emitted' = <<>>
                 /\ UNCHANGED <<current_index, label, progress>>
            [] branch = "continue" ->
                 /\ s_pc' = "recv"
                 /\ emitted' = <<>>
                 /\ UNCHANGED <<current_index, label, progress>>
            [] OTHER ->
                 /\ current_index' = idx
                 /\ label' = ClassOf(workflow_data, msg.node)
                 /\ IF total_nodes = 0
                    THEN \* current_index / total_nodes: ZeroDivisionError
                         /\ emitted' = <<"set_current_node">>
                         /\ s_pc' = "except"
                         /\ UNCHANGED progress
                    ELSE /\ progress' = Frac(idx, total_nodes)
                         /\ emitted' = <<"set_current_node", "set_fraction">>
                         /\ s_pc' = "recv"
    /\ UNCHANGED <<topoVars, prompt_id, msg, preview, calls, queueVars>>

\* msg["type"] == "progress"
HandleProgress ==
    /\ s_pc = "handle"
    /\ msg.type = "progress"
    /\ IF msg.max = 0 \/ total_nodes = 0
       THEN \* ZeroDivisionError
            /\ emitted' = <<>>
            /\ s_pc' = "except"
            /\ UNCHANGED progress
       ELSE \* current_index / total_nodes + (value / max) / total_nodes
            /\ progress' = Frac(current_index * msg.max + msg.value,
                                total_nodes * msg.max)
            /\ emitted' = <<"set_fraction">>
            /\ s_pc' = "recv"
    /\ UNCHANGED <<topoVars, prompt_id, current_index, label, msg, preview,
                   calls, queueVars>>

\* msg["type"] == "executed"
HandleExecuted ==
    /\ s_pc = "handle"
    /\ msg.type = "executed"
    /\ IF total_nodes = 0
       THEN \* ZeroDivisionError
            /\ emitted' = <<>>
            /\ s_pc' = "except"
            /\ UNCHANGED <<progress, preview>>
       ELSE /\ progress' = ExecutedFraction(current_index, total_nodes)
            /\ IF msg.images
               THEN \* GET /view answers, or raises
                    \/ /\ emitted' = <<"set_fraction", "view", "on_image_update">>
                       /\ preview' = <<"view">>
                       /\ s_pc' = "recv"
                    \/ /\ emitted' = <<"set_fraction", "view">>
                       /\ s_pc' = "except"
                       /\ UNCHANGED preview
               ELSE /\ emitted' = <<"set_fraction">>
                    /\ s_pc' = "recv"
                    /\ UNCHANGED preview
    /\ UNCHANGED <<topoVars, prompt_id, current_index, label, msg, calls, queueVars>>

\* A JSON event of any other type matches no branch.
HandleOther ==
    /\ s_pc = "handle"
    /\ msg.type = "status"
    /\ emitted' = <<>>
    /\ s_pc' = "recv"
    /\ UNCHANGED <<topoVars, prompt_id, current_index, progress, label, msg,
                   preview, calls, queueVars>>

\* After the loop: GET /history/<prompt_id>, which raises or answers with
\* outputs for the nodes outs; the first output of a save node is taken:
\* node_output["images"][0] (raises without images), the GET of /view
\* (raises or answers), _on_image_final, break.
History ==
    /\ s_pc = "history"
    /\ \/ /\ calls' = [calls EXCEPT !.history = @ + 1, !.fetched = "failed"]
          /\ s_pc' = "except"
       \/ \E outs \in SUBSET Range(workflow_data.keys),
             images \in BOOLEAN, view \in BOOLEAN :
             LET saves == {n \in outs :
                             ClassOf(workflow_data, n) = SAVE_NODE_CLASS}
             IN /\ calls' = [calls EXCEPT
                                !.history = @ + 1,
                                !.fetched = "ok",
                                !.saves = Cardinality(saves),
                                !.on_final = @ + (IF images /\ view
                                                  THEN FinalCalls(saves)
                                                  ELSE 0)]
                /\ s_pc' = IF saves = {} \/ (images /\ view)
                           THEN ExitPath("history") ELSE "except"
    /\ UNCHANGED <<topoVars, prompt_id, current_index, progress, label, msg,
                   emitted, preview, queueVars>>

\* except Exception: logged unless self._stop_requested.is_set()
Except ==
    /\ s_pc = "except"
    /\ s_pc' = ExitPath("except")
    /\ calls' = [calls EXCEPT !.raised = TRUE]
    /\ UNCHANGED <<topoVars, prompt_id, current_index, progress, label, msg,
                   emitted, preview, queueVars>>

\* finally: with _active_ws_lock: self._active_ws = None; ws.close();
\* set_fraction(0.0); set_current_node(None)
Finally ==
    /\ s_pc = "finally"
    /\ active_ws' = NoWorker
    /\ wk' = [wk EXCEPT ![SessionThread].ws = "closed"]
    /\ progress' = Zero
    /\ label' = Ready
    /\ emitted' = <<"set_fraction", "set_current_node">>
    /\ s_pc' = "done"
    /\ UNCHANGED <<topoVars, prompt_id, current_index, msg, preview, calls,
                   sessFrame>>

InitSession ==
    /\ \E n \in 0..MaxNodes : workflow_data = MkChain(n)
    /\ exec_order = <<>>
    /\ topo_pc = "idle"
    /\ InitQueue
    /\ s_pc = "start"
    /\ prompt_id = None
    /\ current_index = 0
    /\ progress = Zero
    /\ label = Ready
    /\ msg = NoMsg
    /\ emitted = <<>>
    /\ preview = <<>>
    /\ calls = NoCalls

NextSession ==
    \/ SessionStart
    \/ SessionStartFails
    \/ Recv
    \/ RecvRaises
    \/ HandleBinary
    \/ HandleGarbage
    \/ HandleExecuting
    \/ HandleProgress
    \/ HandleExecuted
    \/ HandleOther
    \/ History
    \/ Except
    \/ Finally

SpecSession == InitSession /\ [][NextSession]_vars

\* ------------------------------------------------------------- SpecTopo

InitTopo ==
    /\ \E n \in 0..MaxNodes, m \in 0..MaxInputs :
          /\ n = 0 => m = 0
          /\ \E o \in Owners(n, m), v \in [1..m -> InputValues(n)] :
                workflow_data = MkWorkflow(n, o, v)
    /\ exec_order = <<>>
    /\ topo_pc = "start"
    /\ InitQueue
    /\ InitSessionIdle

TopoSort ==
    /\ topo_pc = "start"
    /\ exec_order' \in TopoResults(workflow_data)
    /\ topo_pc' = "done"
    /\ UNCHANGED <<workflow_data, queueVars, sessVars>>

NextTopo == TopoSort

SpecTopo == InitTopo /\ [][NextTopo]_vars

\* ------------------------------------------------- claims on _topo_sort

Keys(wf) == Range(wf.keys)

\* n has a 2-element input [parent_id, output_index] whose parent id
\* (as the string str(parent_id)) is p, a key of the workflow.
DependsOn(wf, n, p) ==
    /\ p \in Keys(wf)
    /\ \E i \in DOMAIN wf.node[n].inputs :
         LET val == wf.node[n].inputs[i]
         IN val.islist /\ val.len = 2 /\ Str(val.first) = p

HasDangling(wf) ==
    \E n \in Keys(wf) : \E i \in DOMAIN wf.node[n].inputs :
        LET val == wf.node[n].inputs[i]
        IN val.islist /\ val.len = 2 /\ Str(val.first) \notin Keys(wf)

\* The nodes left after taking away, again and again, every node none of
\* whose dependencies is left: the nodes on or behind a dependency cycle.
RECURSIVE Unordered(_, _)
Unordered(nodes, wf) ==
    LET free == {n \in nodes : \A p \in nodes : ~DependsOn(wf, n, p)}
    IN IF free = {} THEN nodes ELSE Unordered(nodes \ free, wf)

Acyclic(wf) == Unordered(Keys(wf), wf) = {}

Before(order, p, n) ==
    \E i, j \in DOMAIN order : i < j /\ order[i] = p /\ order[j] = n

\* C1: for an acyclic workflow, every dependency of a node stands at a
\* strictly smaller position than the node in the order _topo_sort returns.
C1_TopologicalValidity ==
    (topo_pc = "done" /\ Acyclic(workflow_data)) =>
        \A n, p \in Keys(workflow_data) :
            DependsOn(workflow_data, n, p) => Before(exec_order, p, n)

\* A chain 1 -> 2 -> 3 (each node depends on a node inserted after it) has
\* been ordered parents first.
C1_Witness ==
    /\ topo_pc = "done"
    /\ Acyclic(workflow_data)
    /\ Len(workflow_data.keys) = 3
    /\ DependsOn(workflow_data, 1, 2)
    /\ DependsOn(workflow_data, 2, 3)
    /\ exec_order = <<3, 2, 1>>

\* C2: for every workflow (cycles, self-references and dangling references
\* included) _topo_sort returns; the order holds every node id exactly once
\* and nothing else.
C2_TotalOrderOfAllNodes ==
    topo_pc = "done" =>
        /\ Len(exec_order) = Len(workflow_data.keys)
        /\ Range(exec_order) = Keys(workflow_data)

\* A workflow with a dependency cycle and a dangling reference was ordered.
C2_Witness ==
    /\ topo_pc = "done"
    /\ DependsOn(workflow_data, 1, 2)
    /\ DependsOn(workflow_data, 2, 1)
    /\ HasDangling(workflow_data)
    /\ Len(exec_order) = 2

\* C22: the order _topo_sort returns is a function of the workflow alone:
\* it is the only order the call can return, whatever order the
\* dependency sets are iterated in.
C22_TopoSortDeterministic ==
    topo_pc = "done" => TopoResults(workflow_data) = {exec_order}

\* ---------------------------------------------------- claims on the queue

InLoop(w) == wk[w].pc \in {"scan", "s_begin", "s_recv", "cleanup", "clear"}
InSession(w) == wk[w].pc \in {"s_begin", "s_recv"}
Quiescent == ui.pc = "idle" /\ \A w \in Workers : wk[w].pc = "free"
PendingInList == {j \in Range(job_list) : status[j] = "pending"}

\* C3: the jobs taken for processing (flipped pending -> processing) form a
\* subsequence of the enqueue order: a job is taken only when no job
\* enqueued before it is still pending and every job taken before it was
\* enqueued before it; a cancelled job is never taken.
C3_FIFO ==
    [][\A j \in Jobs :
          /\ (status[j] # "processing" /\ status'[j] = "processing") =>
                /\ status[j] = "pending"
                /\ taken' = Append(taken, j)
                /\ \A i \in Jobs : i < j => status[i] # "pending"
                /\ \A k \in Range(taken) : k < j
          /\ status[j] = "cancelled" => status'[j] = "cancelled"]_vars

\* Job 1 was taken, job 2 was cancelled while pending, job 3 was taken.
C3_Witness ==
    /\ taken = <<1, 3>>
    /\ status[2] = "cancelled"

\* C4: at most one worker loop is running and at most one job of the queue
\* has status processing (at most one session is live) at any time.
C4_SingleFlight ==
    /\ Cardinality({w \in Workers : InLoop(w)}) <= 1
    /\ Cardinality({w \in Workers : InSession(w)}) <= 1
    /\ Cardinality({j \in Range(job_list) : status[j] = "processing"}) <= 1

\* C5: no job is stranded: when no handler is running on the UI thread and
\* no worker thread is alive, no job of the queue is still pending.
C5_NoJobStranded == Quiescent => PendingInList = {}

\* C11: a job cancelled while pending is marked cancelled in the critical
\* section that read its status, is out of the queue when that cancel call
\* returns, and is never taken for processing: it never leaves the status
\* cancelled and never enters the jobs taken, whatever the worker does in
\* between.
C11_CancelledPendingNeverTaken ==
    [][\A j \in Jobs :
          /\ (/\ ui.pc = "idle" /\ ui'.pc = "cancel_remove" /\ ui'.job = j
              /\ status[j] = "pending") => status'[j] = "cancelled"
          /\ status[j] = "cancelled" => status'[j] = "cancelled"
          /\ status'[j] = "cancelled" => j \notin Range(taken')
          /\ (ui.pc = "cancel_remove" /\ ui.job = j /\ ui'.pc = "idle") =>
                j \notin Range(job_list')]_vars

\* Job 1 was cancelled while pending and removed; the worker then took
\* job 2, the job behind it.
C11_Witness ==
    /\ status[1] = "cancelled"
    /\ 1 \notin Range(job_list)
    /\ taken = <<2>>
    /\ ui.pc = "idle"

NoDuplicates(list) ==
    \A i, k \in DOMAIN list : i # k => list[i] # list[k]

\* C12: a cancel called for a job that is no longer in the queue (cancelled
\* before, or removed by the worker) leaves job_list as it is; a job that
\* left the queue never comes back, the queue holds no job twice and a step
\* takes at most one job out: len(job_list) goes down at most once per job.
C12_CancelIdempotent ==
    [][/\ \A j \in Created : j \notin Range(job_list) => j \notin Range(job_list')
       /\ (/\ ui.pc = "cancel_remove" /\ ui'.pc = "idle"
           /\ ui.job \notin Range(job_list)) => job_list' = job_list
       /\ (ui.pc = "idle" /\ ui'.pc \in {"cancel_remove", "stop_set"}) =>
             job_list' = job_list
       /\ NoDuplicates(job_list')
       /\ Len(job_list') >= Len(job_list) - 1]_vars

\* A second cancel of a job that was cancelled and removed before is at its
\* job_list.remove while other jobs are in the queue.
C12_Witness ==
    /\ ui.pc = "cancel_remove"
    /\ status[ui.job] = "cancelled"
    /\ ui.job \notin Range(job_list)
    /\ job_list # <<>>

\* C13: a cancel called for a job that is not in the queue (any more) does
\* not enter on_stop_clicked, which sets the stop flag, closes the active
\* connection and posts the interrupt; it takes the branch that changes
\* nothing.
C13_CancelOfRemovedJobInert ==
    [][\A j \in Jobs :
          (/\ ui.pc = "idle" /\ ui'.pc \in {"cancel_remove", "stop_set"}
           /\ ui'.job = j /\ j \notin Range(job_list)) =>
              /\ ui'.pc = "cancel_remove"
              /\ stop_requested' = stop_requested
              /\ wk' = wk]_vars

\* C15: when a job is taken for processing (its session begins) the stop
\* flag is clear.
C15_StopFlagClearAtSessionBegin ==
    [][\A j \in Jobs :
          (status[j] = "pending" /\ status'[j] = "processing") =>
              ~stop_requested']_vars

\* C28: no job is taken twice, by one thread or by two: the list of jobs
\* taken so far never gets a job it already holds, two threads never work
\* on the same job, and a job that is processing or cancelled keeps that
\* status (it never returns to pending, so no scan takes it again).
C28_JobTakenAtMostOnce ==
    [][/\ NoDuplicates(taken')
       /\ \A j \in Jobs :
             status[j] \in {"processing", "cancelled"} => status'[j] = status[j]
       /\ \A v, w \in Workers :
             (v # w /\ wk'[v].job # NoJob) => wk'[v].job # wk'[w].job]_vars

\* Two worker loops run at once, each in the session of its own job.
C28_Witness ==
    /\ wk[1].pc = "s_recv"
    /\ wk[2].pc = "s_recv"
    /\ wk[1].job # wk[2].job
    /\ Len(taken) = 2
    /\ NoDuplicates(taken)

\* C29: a thread that is in its receive loop on a connected socket has its
\* own websocket registered in _active_ws, and _active_ws is None when no
\* thread is in a session.
C29_ActiveHandleIsTheSessionsOwn ==
    /\ \A w \in Workers :
          (wk[w].pc = "s_recv" /\ wk[w].ws = "connected") => active_ws = w
    /\ (\A w \in Workers : wk[w].pc \notin {"s_begin", "s_recv"}) =>
          active_ws = NoWorker

\* ------------------------------------- claims on the worker and its session

\* C14: the connection a stop closes is the one of the job that was being
\* processed when the stop was requested: a stop requested for job j leaves
\* the socket of a thread that works on another job as it is.
C14_StopClosesOnlyItsJob ==
    [][\A w \in Workers :
          (/\ ui.pc = "stop_close" /\ ui'.pc = "idle"
           /\ ui.job # NoJob /\ wk[w].job # ui.job) =>
              wk'[w].ws = wk[w].ws]_vars

\* C16: a stop requested while job j has status processing is followed by
\* the removal of j from the queue, with no further frame from the server
\* assumed.
C16_StopEndsProcessingJob ==
    \A j \in Jobs :
        (/\ ui.pc = "stop_close" /\ ui.job = j
         /\ j \in Range(job_list) /\ status[j] = "processing")
            ~> (j \notin Range(job_list))

\* C17: after an exception in the session of job j the thread removes j
\* from the queue and is back at its scan: it takes the next pending job, or
\* leaves the loop when no job of the queue is pending.
C17_ErrorDoesNotAbortLoop ==
    \A w \in Workers : \A j \in Jobs :
        (wk[w].pc = "s_except" /\ wk[w].job = j)
            ~> (/\ j \notin Range(job_list)
                /\ \/ wk[w].pc = "s_begin" /\ wk[w].job # j
                   \/ wk[w].pc = "exit" /\ PendingInList = {})

\* The session of job 1 ended by an exception; job 1 is out of the queue and
\* the same thread has taken job 2.
C17_Witness ==
    \E w \in Workers :
        /\ wk[w].last = "raised"
        /\ wk[w].pc = "s_begin"
        /\ wk[w].job = 2
        /\ taken = <<1, 2>>
        /\ 1 \notin Range(job_list)

\* C18: a session whose POST of the prompt failed (network error or HTTP
\* error response) does not enter the receive loop and consumes no event.
C18_FailedSubmissionConsumesNoEvent ==
    \A w \in Workers :
        wk[w].post \in {"neterr", "httperr"} =>
            /\ wk[w].pc \notin {"s_loop", "s_history"}
            /\ ~wk[w].events

\* A session is running in thread w: from the registration of its websocket
\* to the end of its finally block.
RunInSession(w) ==
    wk[w].pc \in {"s_connect", "s_post", "s_loop", "s_history", "s_except",
                  "s_finally"}

\* C24: the exception of a session goes to the log exactly when no stop was
\* requested for that session: it is suppressed when a stop was requested
\* while the session's job was the one being processed, and logged
\* otherwise.
C24_LoggedIffNotStopped ==
    [][\A w \in Workers :
          (wk[w].pc = "s_except" /\ wk'[w].pc # "s_except") =>
              (wk'[w].logged <=> ~wk[w].stopped)]_vars

\* C25: a job with status processing leaves job_list only in the cleanup
\* step of the thread that processes it; the steps of _cancel_job and of
\* on_stop_clicked leave the list as it is when they are entered for it.
C25_ProcessingJobRemovedOnlyByWorker ==
    [][\A j \in Jobs :
          (j \in Range(job_list) /\ status[j] = "processing") =>
              /\ (ui.job = j /\ ui' # ui) => job_list' = job_list
              /\ j \notin Range(job_list') =>
                    \E w \in Workers : /\ wk[w].job = j
                                       /\ wk[w].pc = "cleanup"
                                       /\ wk'[w].pc = "clear"
                                       /\ ui' = ui]_vars

\* Job 1 was stopped while it was processed and the stop handler has
\* returned: the socket is closed, the session has not ended yet and job 1
\* is still in the list with the jobs behind it.
C25_Witness ==
    /\ ui = UiIdle
    /\ stop_requested
    /\ status[1] = "processing"
    /\ job_list = <<1, 2>>
    /\ wk[1].job = 1
    /\ wk[1].stopped
    /\ wk[1].ws = "closed"
    /\ wk[1].pc = "s_loop"

\* C27: the stop handler that _cancel_job entered for job J, when it
\* returns, has closed the socket of no thread that works on another job
\* and leaves the stop flag set for no session of another job.
C27_CancelInterruptsOnlyItsJob ==
    [][(ui.pc = "stop_close" /\ ui.via = "cancel" /\ ui'.pc = "idle") =>
          \A w \in Workers :
              (wk[w].job # NoJob /\ wk[w].job # ui.job) =>
                  /\ wk'[w].ws = wk[w].ws
                  /\ RunInSession(w) => ~stop_requested']_vars

\* -------------------------------------------------- claims on the session

Stale(m) == m.pid \notin {prompt_id, None}

\* C6: an "executing" event that carries another prompt id than this
\* session's changes neither current_index nor the label nor the reported
\* progress, schedules no call and leaves the session in its receive loop,
\* whatever its node (null, known or unknown).
C6_StaleEventIsolation ==
    [][(s_pc = "handle" /\ msg.type = "executing" /\ Stale(msg)) =>
          /\ current_index' = current_index
          /\ label' = label
          /\ progress' = progress
          /\ emitted' = <<>>
          /\ s_pc' = "recv"]_vars

\* Session pB has advanced, then received the stale terminal event of pA
\* and is back in recv.
C6_Witness ==
    /\ s_pc = "recv"
    /\ prompt_id = OwnPid
    /\ msg.type = "executing" /\ msg.pid = StalePid /\ msg.node = NoNode
    /\ current_index > 0
    /\ progress # Zero

\* C7: the loop is left for the history fetch only on an "executing" event
\* whose node is null and whose prompt id equals the one the POST returned
\* (python equality of the two .get results).
C7_SoleTerminalSignal ==
    s_pc = "history" =>
        /\ msg.type = "executing"
        /\ msg.node = NoNode
        /\ msg.pid = prompt_id

\* The terminal event of this session's prompt ended the loop after some
\* progress.
C7_Witness ==
    /\ s_pc = "history"
    /\ prompt_id = OwnPid
    /\ msg.pid = OwnPid
    /\ current_index > 0

\* C8: an "executing", "progress" or "executed" event that carries another
\* prompt id than this session's reports no progress fraction and fetches
\* no preview.
C8_ForeignEventsInert ==
    [][(/\ s_pc = "handle"
        /\ prompt_id = OwnPid
        /\ msg.type \in {"executing", "progress", "executed"}
        /\ msg.pid = StalePid) =>
          /\ progress' = progress
          /\ "set_fraction" \notin Range(emitted')
          /\ "view" \notin Range(emitted')]_vars

\* C19: a text event that is no valid JSON or lacks a field the handling
\* reads is skipped: the session is back at ws.recv() after it.
C19_MalformedEventSkipped ==
    [][(s_pc = "handle" /\ msg.type \in {"garbage", "nofield"}) =>
          s_pc' = "recv"]_vars

\* C20: within a session the history is fetched at most once and only
\* after the terminal event ended the loop; _on_image_final is called at
\* most once, only after a history fetch that answered with an output of a
\* save node, and not in a session that went through its except block
\* (stopped, errored, or the fetch failed).
C20_HistoryAndFinalAtMostOnce ==
    /\ calls.history <= 1
    /\ calls.on_final <= 1
    /\ s_pc \in {"start", "recv", "handle"} => calls.history = 0
    /\ calls.history = 1 =>
          /\ msg.type = "executing"
          /\ msg.node = NoNode
          /\ msg.pid = prompt_id
    /\ calls.on_final = 1 =>
          /\ calls.history = 1
          /\ calls.fetched = "ok"
          /\ calls.saves >= 1
          /\ ~calls.raised
    /\ calls.raised => calls.on_final = 0

\* A session ended after a history that held outputs of two save nodes: one
\* _on_image_final call.
C20_Witness ==
    /\ s_pc = "done"
    /\ calls.history = 1
    /\ calls.saves = 2
    /\ calls.on_final = 1

\* C21: when the frames received are the complete in-order stream of this
\* session's prompt over a non-empty execution order, the fraction reported
\* last when the terminal event is handled is 1, the terminal event ends
\* the loop, and the history is fetched once: not before the loop is left,
\* once after it.
C21_CompleteStreamEndsAtOne ==
    (calls.stream = 2 * total_nodes + 1 /\ total_nodes > 0) =>
        /\ s_pc # "recv"
        /\ s_pc \in {"handle", "history"} =>
              progress = One /\ calls.history = 0
        /\ s_pc \in {"except", "finally", "done"} => calls.history = 1

\* The complete stream of a workflow of at least two nodes was received and
\* the loop was left for the history fetch with the bar at 1.
C21_Witness ==
    /\ s_pc = "history"
    /\ total_nodes >= 2
    /\ calls.stream = 2 * total_nodes + 1
    /\ progress = One

\* C23: when _generate_logic has returned, by whatever path, the session's
\* websocket is closed, no websocket is registered, the bar is at 0, the
\* label is the idle one, and the two resets are the last calls scheduled.
C23_CleanupOnEveryExit ==
    s_pc = "done" =>
        /\ wk[SessionThread].ws = "closed"
        /\ active_ws = NoWorker
        /\ progress = Zero
        /\ label = Ready
        /\ emitted = <<"set_fraction", "set_current_node">>

\* A session that had advanced in its workflow ended through its except
\* block (a stop closed the socket, or an error) and was cleaned up.
C23_Witness ==
    /\ s_pc = "done"
    /\ calls.raised
    /\ current_index > 0
    /\ wk[SessionThread].ws = "closed"
    /\ progress = Zero

\* C26: a binary frame, wherever in the loop it arrives, schedules exactly
\* one _on_image_update call, with the bytes of the frame after its first
\* 8 (none when the frame is shorter), changes neither current_index nor
\* the reported progress nor the label, and leaves the session in its loop.
C26_BinaryFrameOnlyPreviews ==
    [][(s_pc = "handle" /\ msg.type = "binary") =>
          /\ emitted' = <<"on_image_update">>
          /\ Len(preview') = IF Len(msg.frame) > HeaderLen
                             THEN Len(msg.frame) - HeaderLen ELSE 0
          /\ \A i \in DOMAIN preview' : preview'[i] = msg.frame[i + HeaderLen]
          /\ current_index' = current_index
          /\ progress' = progress
          /\ label' = label
          /\ s_pc' = "recv"]_vars

\* A frame of 8 + 2 bytes was received before any "executing" event: its
\* last two bytes went to the preview, the bar and the label are untouched.
C26_Witness ==
    /\ s_pc = "recv"
    /\ msg.type = "binary"
    /\ Len(msg.frame) = HeaderLen + 2
    /\ preview = <<HeaderLen + 1, HeaderLen + 2>>
    /\ current_index = 0
    /\ progress = Zero
    /\ label = Ready

\* C30: an "executing" event without prompt_id never ends the loop, whatever
\* its node and whatever the POST returned as prompt id; a node of the
\* execution order sets current_index to its position, any other node
\* leaves current_index as it was.
C30_ExecutingWithoutPromptId ==
    [][(s_pc = "handle" /\ msg.type = "executing" /\ msg.pid = None) =>
          /\ s_pc' # "history"
          /\ \A i \in DOMAIN exec_order :
                exec_order[i] = msg.node => current_index' = i - 1
          /\ msg.node \notin Range(exec_order) =>
                current_index' = current_index]_vars

\* C9: within a session every fraction reported is at least the one
\* reported before it; only the reset of the finally block goes down.
C9_ProgressMonotone ==
    [][s_pc # "finally" => FracLeq(progress, progress')]_vars

\* C10: every fraction reported lies in [0, 1], and for a non-empty
\* workflow current_index stays in 0 .. total_nodes - 1.
C10_FractionInUnitInterval ==
    /\ FracLeq(Zero, progress)
    /\ FracLeq(progress, One)
    /\ (s_pc \in {"recv", "handle", "history"} /\ total_nodes > 0) =>
          current_index \in 0..(total_nodes - 1)

\* The last node of a workflow of at least two nodes was reported executed:
\* the fraction is (current_index + 1) / total = 1.
C10_Witness ==
    /\ s_pc = "recv"
    /\ msg.type = "executed"
    /\ total_nodes >= 2
    /\ current_index = total_nodes - 1
    /\ progress = One

====
